---- MODULE Spec2Model ----
(***************************************************************************)
(* Model of profile.py, the CloudLab profile that requests the nodes of an *)
(* OpenWhisk cluster: define_parameters, create_node and main.             *)
(*                                                                         *)
(* A run of main is a sequence of steps: define_parameters, the creation   *)
(* of the request and of the LAN, one create_node call per loop iteration, *)
(* one addService per secondary node, the primary node's addService and    *)
(* printRequestRSpec.  The script may be run again on the same input; the  *)
(* module-level global `request` is the only state that can outlive a run  *)
(* of main.                                                                *)
(*                                                                         *)
(* Strings are TLC strings; str() of an integer is ToString, str() of a    *)
(* bool is "True"/"False" as Python prints it.  A shell command is kept as *)
(* the sequence of its space-separated words.                              *)
(***************************************************************************)
EXTENDS Integers, Sequences, FiniteSets, TLC

(* ------------------------------ bounds --------------------------------- *)

MaxNodeCount == 3
MaxInvokers == 1
MaxTempFileSystemSize == 1
MaxRuns == 2

(* ------------------------- program constants --------------------------- *)

BASE_IP == "10.10.1"
BANDWIDTH == 10000000
IMAGE == "urn:publicid:IDN+wisc.cloudlab.us+image+gwcloudlab-PG0:openwsk-v1:0"

(* The values the portal can bind to each declared parameter.  INTEGER     *)
(* parameters are not range-checked by the script, so nodeCount may be 0   *)
(* or negative.                                                            *)
NodeCounts == (0 - 1)..MaxNodeCount
NodeTypes == {"m510", "xl170"}
InvokerEngines == {"kubernetes", "docker"}
Inputs ==
  [nodeCount : NodeCounts,
   nodeType : NodeTypes,
   startKubernetes : BOOLEAN,
   deployOpenWhisk : BOOLEAN,
   numInvokers : 0..MaxInvokers,
   invokerEngine : InvokerEngines,
   schedulerEnabled : BOOLEAN,
   tempFileSystemSize : 0..MaxTempFileSystemSize]

(* The default of every parameter, as declared by defineParameter.         *)
Defaults ==
  [nodeCount |-> 3, nodeType |-> "m510", startKubernetes |-> TRUE,
   deployOpenWhisk |-> TRUE, numInvokers |-> 1, invokerEngine |-> "kubernetes",
   schedulerEnabled |-> FALSE, tempFileSystemSize |-> 0]

(* ------------------------------ state ---------------------------------- *)

VARIABLES
  input,     \* the parameter values the portal supplies to the script
  run,       \* number of the current run of main (1-based)
  pc,        \* control location of main
  params,    \* main's local `params` (bound parameters), NoParams before
  errors,    \* the portal context's list of reported parameter errors
  request,   \* the module-level global `request`: Unbound or a request
  lan,       \* main's local `lan`: a reference into request.lans, 0 before
  nodes,     \* main's local list `nodes`: references into request.rawpcs
  i,         \* loop variable of the loop main is in
  stdout,    \* the lines written by print()
  printed    \* the descriptors written by printRequestRSpec, one per run

vars == <<input, run, pc, params, errors, request, lan, nodes, i, stdout, printed>>

NoParams == [bound |-> FALSE]
Unbound == [bound |-> FALSE]

(* --------------------------- conversions ------------------------------- *)

(* Python's str() of a bool, as an f-string interpolates it.               *)
PyBool(b) == IF b THEN "True" ELSE "False"

(* Python's str() of an int.                                               *)
PyInt(n) == ToString(n)

(* ------------------------- define_parameters --------------------------- *)

(* params = pc.bindParameters(): the supplied value of every parameter.    *)
bindParameters(inp) == inp

(* The errors define_parameters reports for the bound parameters p: the    *)
(* ParameterWarning of the one cross-field check, handed to reportError.   *)
ParameterErrors_swapped(p) ==
  IF p.startKubernetes /\ ~p.deployOpenWhisk
    THEN << [message |-> "A Kubernetes cluster must be created to deploy OpenWhisk",
             fields |-> <<"startKubernetes">>] >>
    ELSE << >>

ParameterErrors(p) ==
  IF ~p.startKubernetes /\ p.deployOpenWhisk
    THEN << [message |-> "A Kubernetes cluster must be created to deploy OpenWhisk",
             fields |-> <<"startKubernetes">>] >>
    ELSE << >>

(* pc.verifyParameters(): with an error reported the portal context prints *)
(* the errors and exits the process; otherwise the script goes on.         *)
verifyParameters(errs) == IF errs # << >> THEN "exit" ELSE "request"

(* define_parameters, called first by main: bind the supplied values,      *)
(* check them, verify.                                                     *)
define_parameters ==
  /\ pc = "start"
  /\ params' = bindParameters(input)
  /\ errors' = ParameterErrors(params')
  /\ pc' = verifyParameters(errors')
  /\ UNCHANGED <<input, run, request, lan, nodes, i, stdout, printed>>

(* ------------------------------- main ---------------------------------- *)

(* Where main goes once the creation loop is over: the secondary loop runs *)
(* over nodes[1:], enumerated from 2, and is skipped when that is empty.   *)
AfterCreate(ns) == IF Len(ns) >= 2 THEN "secondary" ELSE "primary"

(* Whether range(params.nodeCount) has a first element.                    *)
range_zero_inclusive(p) == 0 <= p.nodeCount

range_nonempty(p) == 0 < p.nodeCount

(* request = pc.makeRequestRSpec(): a new, empty request.                  *)
makeRequestRSpec_reused ==
  IF request.bound THEN request
  ELSE [bound |-> TRUE, lans |-> << >>, rawpcs |-> << >>]

makeRequestRSpec == [bound |-> TRUE, lans |-> << >>, rawpcs |-> << >>]

(* request = pc.makeRequestRSpec(); nodes = []; lan = request.LAN();       *)
(* lan.bandwidth = BANDWIDTH; then the entry of the creation loop.         *)
main_request ==
  /\ pc = "request"
  /\ LET req == makeRequestRSpec
     IN /\ request' = [req EXCEPT !.lans =
                         Append(@, [bandwidth |-> BANDWIDTH, interfaces |-> << >>])]
        /\ lan' = Len(req.lans) + 1
  /\ nodes' = << >>
  /\ IF range_nonempty(params)
       THEN pc' = "create" /\ i' = 0
       ELSE pc' = AfterCreate(nodes') /\ i' = 2
  /\ UNCHANGED <<input, run, params, errors, stdout, printed>>

(* ---------------------------- create_node ------------------------------ *)

(* ip_suffix = 1 + len(nodes)                                              *)
ip_suffix_plus_two(ns) == 2 + Len(ns)

ip_suffix(ns) == 1 + Len(ns)

(* f"{BASE_IP}.{ip_suffix}"                                                *)
Address(suffix) == BASE_IP \o "." \o PyInt(suffix)

(* bs.size = f"{params.tempFileSystemSize}GB"                              *)
BlockstoreSize_zero_omitted(p) ==
  IF p.tempFileSystemSize = 0 THEN "GB" ELSE PyInt(p.tempFileSystemSize) \o "GB"

BlockstoreSize(p) == PyInt(p.tempFileSystemSize) \o "GB"

(* The node create_node builds: request.RawPC(name) with its image and     *)
(* hardware type, the interface "if1" with its address, and the blockstore.*)
RawPC(name, ns, p) ==
  [name |-> name,
   disk_image |-> IMAGE,
   hardware_type |-> p.nodeType,
   interfaces |-> << [name |-> "if1",
                      addresses |-> << [address |-> Address(ip_suffix(ns)),
                                        netmask |-> "255.255.255.0"] >>] >>,
   blockstores |-> << [name |-> name \o "-bs", mount |-> "/mydata",
                       size |-> BlockstoreSize(p), placement |-> "any"] >>,
   services |-> << >>]

(* A LAN's reference to an interface of a node.                            *)
InterfaceRef(node, k) == [node |-> node.name, iface |-> node.interfaces[k].name]

(* create_node(name, nodes, lan, params): the node is added to the global  *)
(* request, its interface to the LAN, the node to `nodes`, and a line is   *)
(* printed.                                                                *)
create_node_without_lan(name) ==
  LET node == RawPC(name, nodes, params)
  IN /\ request' = [request EXCEPT !.rawpcs = Append(@, node)]
     /\ nodes' = Append(nodes, Len(request.rawpcs) + 1)
     /\ stdout' = Append(stdout, "Created node " \o name \o " with IP "
                                   \o BASE_IP \o "." \o PyInt(ip_suffix(nodes)))

create_node(name) ==
  LET node == RawPC(name, nodes, params)
  IN /\ request' = [request EXCEPT
                      !.rawpcs = Append(@, node),
                      !.lans[lan].interfaces = Append(@, InterfaceRef(node, 1))]
     /\ nodes' = Append(nodes, Len(request.rawpcs) + 1)
     /\ stdout' = Append(stdout, "Created node " \o name \o " with IP "
                                   \o BASE_IP \o "." \o PyInt(ip_suffix(nodes)))

(* name = f"ow{i+1}"                                                       *)
NodeName_zero_based(k) == "ow" \o PyInt(k)

NodeName(k) == "ow" \o PyInt(k + 1)

(* One iteration of `for i in range(params.nodeCount)`.                    *)
main_create ==
  /\ pc = "create"
  /\ create_node(NodeName(i))
  /\ IF i + 1 < params.nodeCount
       THEN pc' = "create" /\ i' = i + 1
       ELSE pc' = AfterCreate(nodes') /\ i' = 2
  /\ UNCHANGED <<input, run, params, errors, lan, printed>>

(* --------------------------- boot commands ----------------------------- *)

LOG == "/home/cloudlab-openwhisk/start.log"
START_SH == "/local/repository/start.sh"

(* The secondary command of the node enumerated as k, word by word.        *)
secondary_cmd_next_address(k, p) ==
  << START_SH, "secondary", BASE_IP \o "." \o PyInt(k + 1), PyBool(p.startKubernetes),
     ">", LOG, "2>&1", "&" >>

secondary_cmd(k, p) ==
  << START_SH, "secondary", BASE_IP \o "." \o PyInt(k), PyBool(p.startKubernetes),
     ">", LOG, "2>&1", "&" >>

(* primary_cmd, word by word.                                              *)
primary_cmd_flags_swapped(p) ==
  << START_SH, "primary", BASE_IP \o ".1", PyInt(p.nodeCount),
     PyBool(p.deployOpenWhisk), PyBool(p.startKubernetes), PyInt(p.numInvokers),
     p.invokerEngine, PyBool(p.schedulerEnabled), ">", LOG, "2>&1" >>

primary_cmd(p) ==
  << START_SH, "primary", BASE_IP \o ".1", PyInt(p.nodeCount),
     PyBool(p.startKubernetes), PyBool(p.deployOpenWhisk), PyInt(p.numInvokers),
     p.invokerEngine, PyBool(p.schedulerEnabled), ">", LOG, "2>&1" >>

(* rspec.Execute(shell="bash", command=...)                                *)
Execute(command) == [shell |-> "bash", command |-> command]

(* node.addService(service) on the node that `ref` refers to.              *)
addService(req, ref, service) ==
  [req EXCEPT !.rawpcs[ref].services = Append(@, service)]

(* One iteration of `for i, node in enumerate(nodes[1:], start=2)`: the    *)
(* node enumerated as i is the i-th node of the list.                      *)
main_secondary ==
  /\ pc = "secondary"
  /\ request' = addService(request, nodes[i], Execute(secondary_cmd(i, params)))
  /\ IF i + 1 <= Len(nodes)
       THEN pc' = "secondary" /\ i' = i + 1
       ELSE pc' = "primary" /\ i' = i
  /\ UNCHANGED <<input, run, params, errors, lan, nodes, stdout, printed>>

(* primary_cmd = ...; nodes[0].addService(...): an IndexError ends the run *)
(* when the list is empty.                                                 *)
main_primary_last_node ==
  /\ pc = "primary"
  /\ IF nodes = << >>
       THEN pc' = "error" /\ request' = request
       ELSE /\ pc' = "print"
            /\ request' = addService(request, nodes[Len(nodes)],
                                      Execute(primary_cmd(params)))
  /\ UNCHANGED <<input, run, params, errors, lan, nodes, i, stdout, printed>>

main_primary ==
  /\ pc = "primary"
  /\ IF nodes = << >>
       THEN pc' = "error" /\ request' = request
       ELSE /\ pc' = "print"
            /\ request' = addService(request, nodes[1], Execute(primary_cmd(params)))
  /\ UNCHANGED <<input, run, params, errors, lan, nodes, i, stdout, printed>>

(* pc.printRequestRSpec(): the request is written out and main returns.    *)
main_print ==
  /\ pc = "print"
  /\ printed' = Append(printed, request)
  /\ pc' = "done"
  /\ UNCHANGED <<input, run, params, errors, request, lan, nodes, i, stdout>>

(* ------------------------------ runs ----------------------------------- *)

Finished == {"done", "exit", "error"}

(* The script is run again on the same input.  main's locals and the       *)
(* portal context are new; the global `request` is either still bound to   *)
(* the last run's request (same interpreter) or unbound (new process).     *)
main ==
  /\ pc \in Finished
  /\ run < MaxRuns
  /\ run' = run + 1
  /\ pc' = "start"
  /\ params' = NoParams
  /\ errors' = << >>
  /\ request' \in {request, Unbound}
  /\ lan' = 0
  /\ nodes' = << >>
  /\ i' = 0
  /\ UNCHANGED <<input, stdout, printed>>

Init ==
  /\ input \in Inputs
  /\ run = 1
  /\ pc = "start"
  /\ params = NoParams
  /\ errors = << >>
  /\ request = Unbound
  /\ lan = 0
  /\ nodes = << >>
  /\ i = 0
  /\ stdout = << >>
  /\ printed = << >>

Next ==
  \/ define_parameters
  \/ main_request
  \/ main_create
  \/ main_secondary
  \/ main_primary
  \/ main_print
  \/ main

Spec == Init /\ [][Next]_vars

(* --------------------------- the properties ---------------------------- *)

(* The k-th node of `nodes` (1-based), and the parts the properties read.  *)
NodeAt(k) == request.rawpcs[nodes[k]]
AddressOf(node) == node.interfaces[1].addresses[1].address
CommandOf(node) == node.services[1].command

(* Whether addr is BASE_IP with host suffix n.                             *)
HasSuffix(addr, n) == addr = "10.10.1." \o ToString(n)

(* The arguments of a command: its words after the script, up to the       *)
(* redirection.                                                            *)
Args(cmd) ==
  LET stop == CHOOSE k \in 1..Len(cmd) : cmd[k] = ">" /\ \A j \in 1..(k - 1) : cmd[j] # ">"
  IN SubSeq(cmd, 2, stop - 1)

IsPrimary(cmd) ==
  /\ cmd[1] = "/local/repository/start.sh"
  /\ cmd[2] = "primary"
  /\ cmd[Len(cmd)] # "&"
IsSecondary(cmd) ==
  /\ cmd[1] = "/local/repository/start.sh"
  /\ cmd[2] = "secondary"
  /\ cmd[Len(cmd)] = "&"

Inconsistent == input.deployOpenWhisk /\ ~input.startKubernetes

(* C1: with deployOpenWhisk=true and startKubernetes=false,                *)
(* define_parameters registers a warning on the field startKubernetes and  *)
(* the run stops there: no request, no node, no descriptor, in any run on  *)
(* that input; with any other combination of the flags no warning is       *)
(* registered and the run is not stopped.                                  *)
C1_Validation ==
  /\ Inconsistent =>
       /\ pc \in {"start", "exit"}
       /\ request = Unbound /\ nodes = << >> /\ printed = << >>
       /\ pc = "exit" =>
            /\ Len(errors) = 1
            /\ errors[1].fields = <<"startKubernetes">>
  /\ ~Inconsistent => errors = << >> /\ pc # "exit"

C1_Witness == Inconsistent /\ pc = "exit" /\ errors # << >>

(* C2: when main reaches printRequestRSpec with nodeCount >= 1, the node   *)
(* list holds exactly nodeCount nodes named ow1..ow<nodeCount> in creation *)
(* order, and each node's address suffix is one more than that of the node *)
(* created just before it.                                                 *)
C2_NodesAtPrint ==
  (pc = "print" /\ params.nodeCount >= 1) =>
    /\ Len(nodes) = params.nodeCount
    /\ Len(request.rawpcs) = params.nodeCount
    /\ \A k \in 1..Len(nodes) : NodeAt(k).name = "ow" \o ToString(k)
    /\ \A k \in 2..Len(nodes) :
         \E n \in 0..(2 * Len(nodes) + 2) :
           /\ HasSuffix(AddressOf(NodeAt(k - 1)), n)
           /\ HasSuffix(AddressOf(NodeAt(k)), n + 1)
    /\ \A k, m \in 1..Len(nodes) :
         k # m => AddressOf(NodeAt(k)) # AddressOf(NodeAt(m))

C2_Witness == pc = "print" /\ params.nodeCount = 3 /\ Len(nodes) = 3

(* C3, as stated: the k-th created node (0-indexed) has the address        *)
(* 10.10.1.(k+2), so the first node has suffix .2.                         *)
C3_Original ==
  pc = "print" =>
    \A k \in 1..Len(nodes) : HasSuffix(AddressOf(NodeAt(k)), (k - 1) + 2)

(* C3, amended: the k-th created node (0-indexed) has the address          *)
(* 10.10.1.(k+1): the first node has suffix .1, and nodeCount=3 yields     *)
(* ow1, ow2, ow3 with addresses ending .1, .2, .3.                         *)
C3_Amended ==
  pc \in {"create", "secondary", "primary", "print", "done"} =>
    /\ \A k \in 1..Len(nodes) : HasSuffix(AddressOf(NodeAt(k)), (k - 1) + 1)
    /\ (pc = "print" /\ params.nodeCount = 3) =>
         /\ [k \in 1..3 |-> NodeAt(k).name] = <<"ow1", "ow2", "ow3">>
         /\ [k \in 1..3 |-> AddressOf(NodeAt(k))]
              = <<"10.10.1.1", "10.10.1.2", "10.10.1.3">>

C3_Witness == pc = "print" /\ params = Defaults /\ Len(nodes) = 3

(* C4: in every emitted descriptor every node carries exactly one boot     *)
(* command; the first created node, ow1, carries the primary command and   *)
(* every other node the secondary command.                                 *)
C4_OneCommandPerNode ==
  \A r \in 1..Len(printed) :
    LET d == printed[r]
    IN /\ Len(d.rawpcs) >= 1
       /\ d.rawpcs[1].name = "ow1"
       /\ \A k \in 1..Len(d.rawpcs) :
            /\ Len(d.rawpcs[k].services) = 1
            /\ IsPrimary(CommandOf(d.rawpcs[k])) <=> k = 1
            /\ IsSecondary(CommandOf(d.rawpcs[k])) <=> k # 1

C4_Witness == printed # << >> /\ Len(printed[1].rawpcs) = 3

(* C5: in every emitted descriptor, the address given as the second        *)
(* argument of a node's boot command is the address of that node's         *)
(* interface.                                                              *)
C5_CommandAddress ==
  \A r \in 1..Len(printed) :
    \A k \in 1..Len(printed[r].rawpcs) :
      LET node == printed[r].rawpcs[k]
      IN \A c \in 1..Len(node.services) :
           Args(node.services[c].command)[2] = AddressOf(node)

C5_Witness ==
  /\ Len(printed) = 1
  /\ Len(printed[1].rawpcs) = 3
  /\ \A k \in 1..3 : Len(printed[1].rawpcs[k].services) = 1

(* C6: the primary command's arguments after role and address are          *)
(* nodeCount, startKubernetes, deployOpenWhisk, numInvokers, invokerEngine *)
(* and schedulerEnabled, in that order, with the values of the bound       *)
(* parameters; a secondary command's only such argument is                 *)
(* startKubernetes.                                                        *)
C6_CommandArguments ==
  pc = "print" =>
    \A k \in 1..Len(nodes) :
      LET args == Args(CommandOf(NodeAt(k)))
      IN IF k = 1
           THEN /\ args[1] = "primary"
                /\ SubSeq(args, 3, Len(args)) =
                     << ToString(params.nodeCount),
                        PyBool(params.startKubernetes),
                        PyBool(params.deployOpenWhisk),
                        ToString(params.numInvokers),
                        params.invokerEngine,
                        PyBool(params.schedulerEnabled) >>
           ELSE /\ args[1] = "secondary"
                /\ SubSeq(args, 3, Len(args)) = << PyBool(params.startKubernetes) >>

C6_Witness ==
  /\ pc = "print"
  /\ Len(nodes) = 3
  /\ params.startKubernetes /\ ~params.deployOpenWhisk
  /\ params.invokerEngine = "docker" /\ params.schedulerEnabled

(* C7: every node created has one block device, of size                    *)
(* tempFileSystemSize followed by "GB" ("0GB" for 0), mounted at /mydata   *)
(* with placement "any"; all nodes of a run have the same size.            *)
C7_Blockstore ==
  pc \in {"create", "secondary", "primary", "print", "done"} =>
    \A k \in 1..Len(nodes) :
      LET bs == NodeAt(k).blockstores
      IN /\ Len(bs) = 1
         /\ bs[1].size = ToString(params.tempFileSystemSize) \o "GB"
         /\ params.tempFileSystemSize = 0 => bs[1].size = "0GB"
         /\ bs[1].mount = "/mydata"
         /\ bs[1].placement = "any"
         /\ bs[1].size = NodeAt(1).blockstores[1].size

C7_Witness ==
  /\ pc = "print" /\ Len(nodes) = 3 /\ params.tempFileSystemSize = 0
  /\ NodeAt(3).blockstores[1].size = "0GB"

(* C8: the runs of main on one input write the same descriptor.            *)
C8_Deterministic ==
  \A a, b \in 1..Len(printed) : printed[a] = printed[b]

C8_Witness == Len(printed) = 2 /\ Len(printed[1].rawpcs) = 3

(* C9: from the creation of the LAN on there is exactly one LAN, of        *)
(* bandwidth 10000000, and its interfaces are those of the nodes of the    *)
(* node list, one per node, in creation order; a create_node call adds     *)
(* exactly one interface and no other step of the run changes the LAN.     *)
C9_LanState ==
  pc \in {"create", "secondary", "primary", "print", "done", "error"} =>
    /\ Len(request.lans) = 1
    /\ request.lans[1].bandwidth = 10000000
    /\ Len(request.rawpcs) = Len(nodes)
    /\ \A k \in 1..Len(nodes) : Len(NodeAt(k).interfaces) = 1
    /\ request.lans[1].interfaces =
         [k \in 1..Len(nodes) |-> [node |-> NodeAt(k).name, iface |-> "if1"]]

C9_LanStep ==
  (pc \in {"create", "secondary", "primary", "print"}) =>
    /\ Len(request'.lans) = 1
    /\ IF pc = "create"
         THEN /\ Len(request'.lans[1].interfaces) = Len(request.lans[1].interfaces) + 1
              /\ SubSeq(request'.lans[1].interfaces, 1, Len(request.lans[1].interfaces))
                   = request.lans[1].interfaces
         ELSE request'.lans[1].interfaces = request.lans[1].interfaces

C9_SingleLan == [][C9_LanStep]_vars /\ []C9_LanState

C9_Witness ==
  /\ pc = "create" /\ Len(nodes) = 2
  /\ Len(request.lans[1].interfaces) = 2

(* C10: when the parameters validate and nodeCount <= 0 no node is         *)
(* created, the primary command cannot be attached, and the run can only   *)
(* end in the error state, without a descriptor; a descriptor is written   *)
(* only for nodeCount >= 1, and the error state is reached in no other     *)
(* case.                                                                   *)
C10_NoNodes ==
  /\ (~Inconsistent /\ input.nodeCount <= 0) =>
       /\ pc \in {"start", "request", "primary", "error"}
       /\ nodes = << >>
       /\ printed = << >>
       /\ request.bound => request.rawpcs = << >>
  /\ pc = "error" => params.nodeCount <= 0 /\ nodes = << >>
  /\ printed # << >> => input.nodeCount >= 1

C10_Witness == pc = "error" /\ params.nodeCount = 0 /\ request.bound /\ run = 2

====
